---- MODULE Spec2Model ----
(***************************************************************************)
(* A model of lib/versionmanager.js of npm-check-updates.                  *)
(*                                                                         *)
(* A JavaScript string is a sequence of one-character strings, so that     *)
(* getVersionConstraints, String.split, Array.join, parseInt and the       *)
(* regular expression of updatePackageData are computed character by       *)
(* character, the way the code computes them.                              *)
(***************************************************************************)
EXTENDS Integers, Sequences, FiniteSets, TLC

VARIABLES
    pc,                  \* position of the scenario being run
    declaration,         \* upgradeDependencyDeclaration / isUpgradeable: argument 1
    latestVersion,       \* upgradeDependencyDeclaration / isUpgradeable: argument 2
    newDeclaration,      \* value returned by upgradeDependencyDeclaration
    reDeclaration,       \* value returned when the result is upgraded again
    upgradeable,         \* outcome of isUpgradeable
    currentDependencies, \* upgradeDependencies: argument 1
    latestVersions,      \* upgradeDependencies: argument 2
    upgraded,            \* outcome of upgradeDependencies
    data,                \* updatePackageData: manifest text (fields before rendering)
    oldDependencies,     \* updatePackageData: argument 2
    newDependencies,     \* updatePackageData: argument 3
    patched,             \* value returned by updatePackageData
    packageList,         \* getLatestVersions: argument 1
    versionTarget,       \* getLatestVersions: options.versionTarget
    registry,            \* what the npm registry answers for each package
    getPackageVersion,   \* the (implicitly global) lookup function selected
    issued,              \* packages for which npm.commands.view was called
    returned,            \* packages whose lookup has called back
    mapResults,          \* async.map's results array
    mapFailed,           \* async.map has already reported an error
    failedDependencies,  \* the failures map
    callbacks            \* the calls of the final callback, in order

vars == <<pc, declaration, latestVersion, newDeclaration, reDeclaration,
          upgradeable, currentDependencies, latestVersions, upgraded,
          data, oldDependencies, newDependencies, patched,
          packageList, versionTarget, registry, getPackageVersion, issued,
          returned, mapResults, mapFailed, failedDependencies, callbacks>>

declVars == <<declaration, latestVersion, newDeclaration, reDeclaration, upgradeable>>
setVars == <<currentDependencies, latestVersions, upgraded>>
patchVars == <<data, oldDependencies, newDependencies, patched>>
lookupVars == <<packageList, versionTarget, registry, getPackageVersion, issued,
                returned, mapResults, mapFailed, failedDependencies, callbacks>>

-----------------------------------------------------------------------------
(* Bounds of the model *)

\* largest number of components of a declaration body
MaxLen == 3
\* largest number of components of a target version
MaxTargetLen == 3

-----------------------------------------------------------------------------
(* JavaScript values and string primitives *)

\* the value undefined (no one-character string equals it)
undefined == <<"undefined">>

\* !v for a string or undefined
falsy(v) == v = undefined \/ v = <<>>

Digit == {"0", "1", "2", "3", "4", "5", "6", "7", "8", "9"}

DigitValue(c) ==
    CASE c = "0" -> 0 [] c = "1" -> 1 [] c = "2" -> 2 [] c = "3" -> 3
      [] c = "4" -> 4 [] c = "5" -> 5 [] c = "6" -> 6 [] c = "7" -> 7
      [] c = "8" -> 8 [] c = "9" -> 9

\* the result of parseInt on a string that does not start with a digit
NaN == -1

RECURSIVE parseDigits(_, _)
parseDigits(s, acc) ==
    IF s = <<>> \/ Head(s) \notin Digit THEN acc
    ELSE parseDigits(Tail(s), acc * 10 + DigitValue(Head(s)))

\* parseInt(s, 10): the value of the leading run of digits, NaN when there is none
parseInt(s) ==
    IF s = <<>> \/ Head(s) \notin Digit THEN NaN ELSE parseDigits(s, 0)

\* a > b on numbers: false when either is NaN
numGreater(a, b) == a # NaN /\ b # NaN /\ a > b

\* isNaN(c) for a one-character string c: Number(c) is a number for a digit
\* and for white space (which converts to 0)
isNaN(c) == c \notin Digit \cup {" ", "\t"}

\* s.substr(start, s.length)
substr(s, start) == SubSeq(s, start + 1, Len(s))

RECURSIVE split(_)
\* s.split('.')
split(s) ==
    IF \A i \in 1..Len(s) : s[i] # "."
    THEN <<s>>
    ELSE LET i == CHOOSE k \in 1..Len(s) :
                      s[k] = "." /\ \A j \in 1..(k - 1) : s[j] # "."
         IN  <<SubSeq(s, 1, i - 1)>> \o split(SubSeq(s, i + 1, Len(s)))

RECURSIVE join(_)
\* a.join('.')
join(a) ==
    IF a = <<>> THEN <<>>
    ELSE IF Len(a) = 1 THEN a[1]
    ELSE a[1] \o <<".">> \o join(Tail(a))

-----------------------------------------------------------------------------
(* The declaration upgrader *)

isWildDigit(d) == d = <<"x">> \/ d = <<"*">>

\* one turn of the loop of getVersionConstraints: is c a constraint character
isConstraintChar(c) == (isNaN(c) \/ c = " ") /\ ~isWildDigit(<<c>>)

RECURSIVE getVersionConstraints(_)
getVersionConstraints(decl) ==
    IF decl = <<>> THEN <<>>
    ELSE IF isConstraintChar(Head(decl))
         THEN <<Head(decl)>> \o getVersionConstraints(Tail(decl))
         ELSE <<>>

versionDigitComparison(d1, d2) ==
    IF numGreater(parseInt(d1), parseInt(d2)) THEN 1
    ELSE IF d1 = d2 \/ isWildDigit(d1) \/ isWildDigit(d2) THEN 0
    ELSE -1

\* the wildcard is overwritten by the latest version's digit
wildOverwritten(currentDigit, newDigit) == newDigit

\* the branch taken for a wildcard component
wildProposal(currentDigit, newDigit) == currentDigit

\* a bump makes the later digits start again from zero
zeroingProposal(currentDigit, newDigit, versionBumped) ==
    LET comparison == versionDigitComparison(currentDigit, newDigit) IN
    IF comparison < 0 THEN [digit |-> newDigit, versionBumped |-> TRUE]
    ELSE IF comparison > 0 /\ ~versionBumped
         THEN [digit |-> newDigit, versionBumped |-> versionBumped]
    ELSE IF versionBumped THEN [digit |-> <<"0">>, versionBumped |-> versionBumped]
    ELSE [digit |-> currentDigit, versionBumped |-> versionBumped]

\* a digit greater than the latest version's is maintained
maintainingProposal(currentDigit, newDigit, versionBumped) ==
    LET comparison == versionDigitComparison(currentDigit, newDigit) IN
    IF comparison < 0 THEN [digit |-> newDigit, versionBumped |-> TRUE]
    ELSE IF versionBumped THEN [digit |-> newDigit, versionBumped |-> versionBumped]
    ELSE [digit |-> currentDigit, versionBumped |-> versionBumped]

\* the branches taken for a component that is no wildcard: the digit pushed
\* and the new value of the flag
digitProposal(currentDigit, newDigit, versionBumped) ==
    LET comparison == versionDigitComparison(currentDigit, newDigit) IN
    IF comparison < 0 THEN [digit |-> newDigit, versionBumped |-> TRUE]
    ELSE IF comparison > 0 /\ ~versionBumped
         THEN [digit |-> newDigit, versionBumped |-> versionBumped]
    ELSE IF versionBumped THEN [digit |-> newDigit, versionBumped |-> versionBumped]
    ELSE [digit |-> currentDigit, versionBumped |-> versionBumped]

RECURSIVE proposeComponents(_, _, _, _, _)
\* the loop over currentComponents, from index i on
proposeComponents(currentComponents, latestComponents, i, versionBumped, proposedComponents) ==
    IF i > Len(currentComponents) THEN proposedComponents
    ELSE IF i > Len(latestComponents) THEN proposedComponents
    ELSE LET currentDigit == currentComponents[i]
             newDigit == latestComponents[i]
         IN  IF isWildDigit(currentDigit)
             THEN proposeComponents(currentComponents, latestComponents, i + 1,
                      versionBumped,
                      Append(proposedComponents, wildProposal(currentDigit, newDigit)))
             ELSE LET p == digitProposal(currentDigit, newDigit, versionBumped)
                  IN  proposeComponents(currentComponents, latestComponents, i + 1,
                          p.versionBumped, Append(proposedComponents, p.digit))

upgradeDependencyDeclaration(decl, latest) ==
    IF falsy(latest) THEN decl
    ELSE LET constraints == getVersionConstraints(decl)
             body == substr(decl, Len(constraints))
             currentComponents == split(body)
         IN  IF currentComponents[1] = <<>> THEN constraints
             ELSE constraints \o
                  join(proposeComponents(currentComponents, split(latest), 1,
                                         FALSE, <<>>))

-----------------------------------------------------------------------------
(* The semver library, as far as isUpgradeable uses it: ranges made of one   *)
(* optional operator and one partial version, and plain MAJOR.MINOR.PATCH    *)
(* versions.                                                                 *)

\* a numeric identifier: digits, no leading zero
isNumericIdentifier(s) ==
    /\ s # <<>>
    /\ \A i \in 1..Len(s) : s[i] \in Digit
    /\ (Len(s) > 1 => s[1] # "0")

isXIdentifier(s) == s = <<"x">> \/ s = <<"X">> \/ s = <<"*">>

OperatorChar == {"<", ">", "=", "~", "^"}

RECURSIVE semverOperator(_)
\* the operator a comparator starts with
semverOperator(range) ==
    IF range = <<>> \/ Head(range) \notin OperatorChar THEN <<>>
    ELSE <<Head(range)>> \o semverOperator(Tail(range))

semverPartial(range) == split(substr(range, Len(semverOperator(range))))

SemverOperators ==
    {<<>>, <<"=">>, <<">">>, <<">", "=">>, <<"<">>, <<"<", "=">>, <<"~">>, <<"^">>}

\* the string is a version semver parses: three numeric identifiers
validVersion(version) ==
    /\ version # undefined
    /\ LET c == split(version) IN
       /\ Len(c) = 3
       /\ \A i \in 1..3 : isNumericIdentifier(c[i])

\* the version as <<major, minor, patch>>
semverParse(version) == [i \in 1..3 |-> parseInt(split(version)[i])]

\* semver.validRange(range) is not null
validRange(range) ==
    \/ range = <<>>
    \/ /\ semverOperator(range) \in SemverOperators
       /\ LET c == semverPartial(range) IN
          /\ Len(c) \in 1..3
          /\ \A i \in 1..Len(c) : isNumericIdentifier(c[i]) \/ isXIdentifier(c[i])

versionLess(a, b) ==
    \/ a[1] < b[1]
    \/ a[1] = b[1] /\ a[2] < b[2]
    \/ a[1] = b[1] /\ a[2] = b[2] /\ a[3] < b[3]

AnyVersion == [operator |-> "*", semver |-> <<0, 0, 0>>]
Comparator(op, M, m, p) == [operator |-> op, semver |-> <<M, m, p>>]

\* the comparators a valid range stands for (replaceCarets, replaceTildes,
\* replaceXRanges, replaceStars)
toComparators(range) ==
    IF range = <<>> THEN <<AnyVersion>>
    ELSE
    LET op == semverOperator(range)
        c == semverPartial(range)
        xM == isXIdentifier(c[1])
        xm == xM \/ Len(c) < 2 \/ isXIdentifier(c[2])
        xp == xm \/ Len(c) < 3 \/ isXIdentifier(c[3])
        M == IF xM THEN 0 ELSE parseInt(c[1])
        m == IF xm THEN 0 ELSE parseInt(c[2])
        p == IF xp THEN 0 ELSE parseInt(c[3])
    IN  IF op = <<"~">> THEN
            IF xM THEN <<AnyVersion>>
            ELSE IF xm THEN <<Comparator(">=", M, 0, 0), Comparator("<", M + 1, 0, 0)>>
            ELSE <<Comparator(">=", M, m, p), Comparator("<", M, m + 1, 0)>>
        ELSE IF op = <<"^">> THEN
            IF xM THEN <<AnyVersion>>
            ELSE IF xm THEN <<Comparator(">=", M, 0, 0), Comparator("<", M + 1, 0, 0)>>
            ELSE IF M > 0 THEN <<Comparator(">=", M, m, p), Comparator("<", M + 1, 0, 0)>>
            ELSE IF xp \/ m > 0 THEN <<Comparator(">=", M, m, p), Comparator("<", M, m + 1, 0)>>
            ELSE <<Comparator(">=", M, m, p), Comparator("<", M, m, p + 1)>>
        ELSE IF xM THEN
            IF op = <<">">> \/ op = <<"<">> THEN <<Comparator("<", 0, 0, 0)>>
            ELSE <<AnyVersion>>
        ELSE IF xp /\ op = <<">">> THEN
            IF xm THEN <<Comparator(">=", M + 1, 0, 0)>>
            ELSE <<Comparator(">=", M, m + 1, 0)>>
        ELSE IF xp /\ op = <<"<", "=">> THEN
            IF xm THEN <<Comparator("<", M + 1, 0, 0)>>
            ELSE <<Comparator("<", M, m + 1, 0)>>
        ELSE IF xp /\ op = <<">", "=">> THEN <<Comparator(">=", M, m, p)>>
        ELSE IF xp /\ op = <<"<">> THEN <<Comparator("<", M, m, p)>>
        ELSE IF xm THEN <<Comparator(">=", M, 0, 0), Comparator("<", M + 1, 0, 0)>>
        ELSE IF xp THEN <<Comparator(">=", M, m, 0), Comparator("<", M, m + 1, 0)>>
        ELSE IF op = <<">">> THEN <<Comparator(">", M, m, p)>>
        ELSE IF op = <<">", "=">> THEN <<Comparator(">=", M, m, p)>>
        ELSE IF op = <<"<">> THEN <<Comparator("<", M, m, p)>>
        ELSE IF op = <<"<", "=">> THEN <<Comparator("<=", M, m, p)>>
        ELSE <<Comparator("", M, m, p)>>

\* Comparator.prototype.test
comparatorTest(comparator, v) ==
    CASE comparator.operator = "*" -> TRUE
      [] comparator.operator = "" -> v = comparator.semver
      [] comparator.operator = ">" -> versionLess(comparator.semver, v)
      [] comparator.operator = ">=" -> ~versionLess(v, comparator.semver)
      [] comparator.operator = "<" -> versionLess(v, comparator.semver)
      [] comparator.operator = "<=" -> ~versionLess(comparator.semver, v)

\* semver.satisfies(version, range), for a version semver parses
satisfies(version, range) ==
    /\ validRange(range)
    /\ LET set == toComparators(range) IN
       \A i \in 1..Len(set) : comparatorTest(set[i], semverParse(version))

RECURSIVE lowestComparator(_, _)
\* the variable high of semver's outside(version, range, '<'): the comparator
\* of the least version
lowestComparator(set, high) ==
    IF set = <<>> THEN high
    ELSE lowestComparator(Tail(set),
             IF versionLess(Head(set).semver, high.semver) THEN Head(set) ELSE high)

RECURSIVE highestComparator(_, _, _)
\* the variable low of semver's outside(version, range, '<'): the comparator
\* of the greatest version among those that did not replace high
highestComparator(set, high, low) ==
    IF set = <<>> THEN low
    ELSE LET c == Head(set) IN
         IF versionLess(c.semver, high.semver)
         THEN highestComparator(Tail(set), c, low)
         ELSE IF versionLess(low.semver, c.semver)
              THEN highestComparator(Tail(set), high, c)
              ELSE highestComparator(Tail(set), high, low)

\* semver.ltr(version, range), for a version semver parses and a valid range
ltr(version, range) ==
    LET v == semverParse(version)
        set == toComparators(range)
        high == lowestComparator(set, set[1])
        low == highestComparator(set, set[1], set[1])
    IN  /\ ~satisfies(version, range)
        /\ high.operator \notin {"<", "<="}
        /\ ~(low.operator \in {"", "<"} /\ ~versionLess(v, low.semver))
        /\ ~(low.operator = "<=" /\ versionLess(low.semver, v))

-----------------------------------------------------------------------------
(* The upgradeability predicate *)

\* the target satisfies the unconstrained declaration or is beyond it
upgradeableUnlessBoth(isLatest, isBeyond) ==
    IF ~isLatest \/ ~isBeyond THEN "true" ELSE "false"

\* the satisfied declaration is upgraded again
upgradeableUnlessBeyond(isLatest, isBeyond) ==
    IF ~isBeyond THEN "true" ELSE "false"

\* the value returned at the end of isUpgradeable
upgradeableResult(isLatest, isBeyond) ==
    IF ~isLatest /\ ~isBeyond THEN "true" ELSE "false"

\* "true", "false", or "TypeError" when semver throws Invalid Version
isUpgradeable(current, latest) ==
    IF ~validRange(current) THEN "false"
    ELSE LET unconstrainedCurrent ==
                 substr(current, Len(getVersionConstraints(current)))
         IN  IF unconstrainedCurrent = <<>> THEN "false"
             ELSE IF ~validVersion(latest) THEN "TypeError"
             ELSE upgradeableResult(satisfies(latest, unconstrainedCurrent),
                                    ltr(latest, unconstrainedCurrent))

-----------------------------------------------------------------------------
(* Inputs *)

\* the value of a variable the scenario does not use
Unused == <<>>

\* sequences over S of length at most n
SeqsUpTo(S, n) == UNION {[1..k -> S] : k \in 0..n}

NumericComponents == {<<"0">>, <<"2">>, <<"1", "0">>}
WildComponents == {<<"x">>, <<"*">>}
Components == NumericComponents \cup WildComponents

\* target versions: absent, empty, or dotted integers
Targets ==
    {undefined} \cup {join(c) : c \in SeqsUpTo(NumericComponents, MaxTargetLen)}

UpgradePrefixes == {<<>>, <<">", "=", " ">>}

UpgradeDeclarations ==
    {prefix \o join(c) : prefix \in UpgradePrefixes, c \in SeqsUpTo(Components, MaxLen)}

\* the last one is no operator of semver
PredicatePrefixes == {<<>>, <<">", "=">>, <<"<">>, <<"~">>, <<"=", ">">>}

\* target versions: absent, empty, too short for semver, or MAJOR.MINOR.PATCH
PredicateTargets ==
    {undefined, <<>>, <<"2", ".", "1", "0">>}
    \cup {join(c) : c \in [1..3 -> NumericComponents]}

PredicateDeclarations ==
    {prefix \o join(c) : prefix \in PredicatePrefixes,
                         c \in SeqsUpTo(NumericComponents \cup {<<"x">>}, MaxLen)}

-----------------------------------------------------------------------------
(* Scenario: a declaration is upgraded, and the result upgraded again *)

InitUpgrade ==
    /\ pc = "upgrade"
    /\ declaration \in UpgradeDeclarations
    /\ latestVersion \in Targets
    /\ newDeclaration = Unused
    /\ reDeclaration = Unused
    /\ upgradeable = Unused
    /\ currentDependencies = Unused /\ latestVersions = Unused /\ upgraded = Unused
    /\ data = Unused /\ oldDependencies = Unused /\ newDependencies = Unused
    /\ patched = Unused
    /\ packageList = Unused /\ versionTarget = Unused /\ registry = Unused
    /\ getPackageVersion = Unused /\ issued = Unused /\ returned = Unused
    /\ mapResults = Unused /\ mapFailed = Unused /\ failedDependencies = Unused
    /\ callbacks = Unused

UpgradeDeclaration ==
    /\ pc = "upgrade"
    /\ newDeclaration' = upgradeDependencyDeclaration(declaration, latestVersion)
    /\ pc' = "upgraded"
    /\ UNCHANGED <<declaration, latestVersion, reDeclaration, upgradeable>>
    /\ UNCHANGED <<setVars, patchVars, lookupVars>>

UpgradeAgain ==
    /\ pc = "upgraded"
    /\ reDeclaration' = upgradeDependencyDeclaration(newDeclaration, latestVersion)
    /\ pc' = "again"
    /\ UNCHANGED <<declaration, latestVersion, newDeclaration, upgradeable>>
    /\ UNCHANGED <<setVars, patchVars, lookupVars>>

NextUpgrade == UpgradeDeclaration \/ UpgradeAgain

SpecUpgrade == InitUpgrade /\ [][NextUpgrade]_vars

-----------------------------------------------------------------------------
(* Scenario: one dependency goes through pick(isUpgradeable) and then        *)
(* mapValues(upgradeDependencyDeclaration)                                   *)

InitPredicate ==
    /\ pc = "check"
    /\ declaration \in PredicateDeclarations
    /\ latestVersion \in PredicateTargets
    /\ newDeclaration = Unused
    /\ reDeclaration = Unused
    /\ upgradeable = Unused
    /\ currentDependencies = Unused /\ latestVersions = Unused /\ upgraded = Unused
    /\ data = Unused /\ oldDependencies = Unused /\ newDependencies = Unused
    /\ patched = Unused
    /\ packageList = Unused /\ versionTarget = Unused /\ registry = Unused
    /\ getPackageVersion = Unused /\ issued = Unused /\ returned = Unused
    /\ mapResults = Unused /\ mapFailed = Unused /\ failedDependencies = Unused
    /\ callbacks = Unused

CheckUpgradeable ==
    /\ pc = "check"
    /\ upgradeable' = isUpgradeable(declaration, latestVersion)
    /\ pc' = "checked"
    /\ UNCHANGED <<declaration, latestVersion, newDeclaration, reDeclaration>>
    /\ UNCHANGED <<setVars, patchVars, lookupVars>>

UpgradePicked ==
    /\ pc = "checked"
    /\ upgradeable = "true"
    /\ newDeclaration' = upgradeDependencyDeclaration(declaration, latestVersion)
    /\ pc' = "picked"
    /\ UNCHANGED <<declaration, latestVersion, reDeclaration, upgradeable>>
    /\ UNCHANGED <<setVars, patchVars, lookupVars>>

NextPredicate == CheckUpgradeable \/ UpgradePicked

SpecPredicate == InitPredicate /\ [][NextPredicate]_vars

-----------------------------------------------------------------------------
(* The vocabulary of the properties: a declaration is a constraint prefix,   *)
(* the leading run of characters that are neither digits nor wildcard        *)
(* markers, followed by dotted components.                                   *)

WildMarker == {"x", "*"}

RECURSIVE PrefixOf(_)
PrefixOf(d) ==
    IF d = <<>> \/ Head(d) \in Digit \cup WildMarker THEN <<>>
    ELSE <<Head(d)>> \o PrefixOf(Tail(d))

BodyOf(d) == SubSeq(d, Len(PrefixOf(d)) + 1, Len(d))

ComponentsOf(d) == IF BodyOf(d) = <<>> THEN <<>> ELSE split(BodyOf(d))

IsWildMarker(c) == Len(c) = 1 /\ c[1] \in WildMarker

Min(a, b) == IF a < b THEN a ELSE b

Upgraded == pc \in {"upgraded", "again"}

\* C1 as stated: every wildcard component of the declaration is, at the same
\* position and as the same marker, a component of the output, whatever the
\* number of components of the (non-empty) target.
C1_WildcardsKeptWhateverTarget ==
    Upgraded /\ ~falsy(latestVersion) =>
        LET dc == ComponentsOf(declaration)
            oc == ComponentsOf(newDeclaration)
        IN  \A i \in 1..Len(dc) :
                IsWildMarker(dc[i]) => i <= Len(oc) /\ oc[i] = dc[i]

\* C1 amended: every wildcard component of the declaration at a position the
\* target has a component for is, at the same position and as the same
\* marker, a component of the output.
C1_WildcardsKeptWithinTarget ==
    Upgraded /\ ~falsy(latestVersion) =>
        LET dc == ComponentsOf(declaration)
            oc == ComponentsOf(newDeclaration)
        IN  \A i \in 1..Len(dc) :
                IsWildMarker(dc[i]) /\ i <= Len(split(latestVersion))
                    => i <= Len(oc) /\ oc[i] = dc[i]

\* a wildcard was kept after an earlier component was bumped
C1_Witness ==
    /\ pc = "upgraded"
    /\ ~falsy(latestVersion)
    /\ LET dc == ComponentsOf(declaration)
           oc == ComponentsOf(newDeclaration)
       IN  /\ Len(dc) = 3 /\ Len(oc) = 3
           /\ dc[1] # oc[1]
           /\ IsWildMarker(dc[2]) /\ oc[2] = dc[2]
           /\ dc[3] # oc[3]

\* C2: upgrading the result of an upgrade against the same target returns it
\* unchanged.
C2_Idempotent == pc = "again" => reDeclaration = newDeclaration

\* the first upgrade bumped a component and truncated the declaration
C2_Witness ==
    /\ pc = "again"
    /\ ~falsy(latestVersion)
    /\ PrefixOf(declaration) # <<>>
    /\ Len(ComponentsOf(newDeclaration)) = 2
    /\ Len(ComponentsOf(declaration)) = 3
    /\ ComponentsOf(newDeclaration)[1] # ComponentsOf(declaration)[1]
    /\ reDeclaration = newDeclaration

\* C10: for a declaration with a body and a non-empty target, the output is
\* the constraint prefix followed by, at each position both have, the
\* declaration's component if it is a wildcard and the target's otherwise.
C10_OutputFollowsTarget ==
    Upgraded /\ ~falsy(latestVersion) /\ BodyOf(declaration) # <<>> =>
        LET dc == ComponentsOf(declaration)
            tc == split(latestVersion)
        IN  newDeclaration =
                PrefixOf(declaration) \o
                join([i \in 1..Min(Len(dc), Len(tc)) |->
                         IF IsWildMarker(dc[i]) THEN dc[i] ELSE tc[i]])

\* the GREATER branch was taken without a bump, then the LESS branch, then
\* the branch of a component above the target's after a bump
C10_Witness ==
    /\ pc = "upgraded"
    /\ ~falsy(latestVersion)
    /\ LET dc == ComponentsOf(declaration)
           tc == split(latestVersion)
       IN  /\ Len(dc) = 3 /\ Len(tc) = 3
           /\ numGreater(parseInt(dc[1]), parseInt(tc[1]))
           /\ numGreater(parseInt(tc[2]), parseInt(dc[2]))
           /\ numGreater(parseInt(dc[3]), parseInt(tc[3]))

-----------------------------------------------------------------------------

\* the versions semver parses, within the bounds
Versions == {join(c) : c \in [1..3 -> NumericComponents]}

\* semver's order on versions
Older(v, w) == versionLess(semverParse(v), semverParse(w))

Matched(range) == {v \in Versions : satisfies(v, range)}

\* C4: a dependency that upgradeDependencies picks gets a declaration that
\* differs from its current one.
C4_PickedIsChanged == pc = "picked" => newDeclaration # declaration

\* a picked declaration with a constraint and a wildcard
C4_Witness ==
    /\ pc = "picked"
    /\ PrefixOf(declaration) # <<>>
    /\ \E i \in 1..Len(ComponentsOf(declaration)) :
           IsWildMarker(ComponentsOf(declaration)[i])
    /\ Len(ComponentsOf(newDeclaration)) = Len(ComponentsOf(declaration))

\* C5 as stated: isUpgradeable is false whenever the target satisfies the
\* declaration and whenever the target is older than every version the
\* declaration matches.
C5_FalseWhenDeclarationSatisfied ==
    pc # "check" /\ validVersion(latestVersion) =>
        /\ satisfies(latestVersion, declaration) => upgradeable = "false"
        /\ (/\ Matched(declaration) # {}
            /\ \A v \in Matched(declaration) : Older(latestVersion, v))
               => upgradeable = "false"

\* C5 amended: isUpgradeable is false whenever the target satisfies the
\* declaration without its constraint prefix, and whenever the target is
\* older than every version that unconstrained declaration matches; it is
\* true only for a valid declaration with a body all of whose matches are
\* older than the target.
C5_FalseWhenUnconstrainedSatisfied ==
    pc # "check" /\ validVersion(latestVersion) =>
        LET body == BodyOf(declaration) IN
        /\ body # <<>> /\ satisfies(latestVersion, body) => upgradeable = "false"
        /\ (/\ body # <<>>
            /\ Matched(body) # {}
            /\ \A v \in Matched(body) : Older(latestVersion, v))
               => upgradeable = "false"
        /\ upgradeable = "true" =>
               /\ validRange(declaration)
               /\ body # <<>>
               /\ \A v \in Matched(body) : Older(v, latestVersion)

\* the target satisfies the constrained declaration, does not satisfy the
\* unconstrained one, and the declaration is upgradeable
C5_Witness ==
    /\ pc = "checked"
    /\ validVersion(latestVersion)
    /\ PrefixOf(declaration) # <<>>
    /\ satisfies(latestVersion, declaration)
    /\ ~satisfies(latestVersion, BodyOf(declaration))
    /\ Matched(BodyOf(declaration)) # {}
    /\ upgradeable = "true"

-----------------------------------------------------------------------------
(* The dependency set upgrader.  A collection is a function from the names   *)
(* it has to their values.                                                   *)

DependencyNames == {"a", "b"}

SetDeclarations ==
    {<<"2", ".", "0", ".", "0">>, <<"2", ".", "x">>, <<"^", "0", ".", "2">>,
     <<">", "=">>, <<"=", ">", "2">>}

SetTargets ==
    {undefined, <<"2", ".", "0", ".", "0">>, <<"1", "0", ".", "0", ".", "2">>}

Collections(values) ==
    UNION {[names -> values] : names \in SUBSET DependencyNames}

\* latestVersions[packageName]
lookup(collection, name) ==
    IF name \in DOMAIN collection THEN collection[name] ELSE undefined

\* the outcome of upgradeDependencies: the mapping returned, or the error
\* thrown by the predicate of pick
upgradeDependencies(current, latest) ==
    LET pairs == [n \in DOMAIN current |-> <<current[n], lookup(latest, n)>>]
        verdict == [n \in DOMAIN pairs |-> isUpgradeable(pairs[n][1], pairs[n][2])]
        picked == {n \in DOMAIN pairs : verdict[n] = "true"}
    IN  IF \E n \in DOMAIN pairs : verdict[n] = "TypeError"
        THEN [error |-> "TypeError", value |-> <<>>]
        ELSE [error |-> "none",
              value |-> [n \in picked |->
                            upgradeDependencyDeclaration(pairs[n][1], pairs[n][2])]]

InitSet ==
    /\ pc = "set"
    /\ currentDependencies \in Collections(SetDeclarations)
    /\ latestVersions \in Collections(SetTargets)
    /\ upgraded = Unused
    /\ declaration = Unused /\ latestVersion = Unused /\ newDeclaration = Unused
    /\ reDeclaration = Unused /\ upgradeable = Unused
    /\ data = Unused /\ oldDependencies = Unused /\ newDependencies = Unused
    /\ patched = Unused
    /\ packageList = Unused /\ versionTarget = Unused /\ registry = Unused
    /\ getPackageVersion = Unused /\ issued = Unused /\ returned = Unused
    /\ mapResults = Unused /\ mapFailed = Unused /\ failedDependencies = Unused
    /\ callbacks = Unused

UpgradeDependencies ==
    /\ pc = "set"
    /\ upgraded' = upgradeDependencies(currentDependencies, latestVersions)
    /\ pc' = "setDone"
    /\ UNCHANGED <<currentDependencies, latestVersions>>
    /\ UNCHANGED <<declVars, patchVars, lookupVars>>

NextSet == UpgradeDependencies

SpecSet == InitSet /\ [][NextSet]_vars

\* C3: upgradeDependencies returns, without raising an error, the mapping
\* whose keys are the names for which isUpgradeable holds, each mapped to its
\* upgraded declaration; a name with no entry, or an undefined entry, in
\* latestVersions is not a key of it.
C3_PicksUpgradeableWithoutError ==
    pc = "setDone" =>
        /\ upgraded.error = "none"
        /\ DOMAIN upgraded.value =
               {n \in DOMAIN currentDependencies :
                    isUpgradeable(currentDependencies[n],
                                  lookup(latestVersions, n)) = "true"}
        /\ \A n \in DOMAIN upgraded.value :
               upgraded.value[n] =
                   upgradeDependencyDeclaration(currentDependencies[n],
                                                lookup(latestVersions, n))
        /\ \A n \in DOMAIN currentDependencies :
               lookup(latestVersions, n) = undefined => n \notin DOMAIN upgraded.value

-----------------------------------------------------------------------------
(* getLatestVersions *)

null == "null"

\* the value undefined, among versions and names written as plain strings
absent == "undefined"

Packages == {"a", "b", "c"}

\* the lists of distinct package names
PackageLists ==
    {l \in SeqsUpTo(Packages, Cardinality(Packages)) :
         \A i, j \in 1..Len(l) : i # j => l[i] # l[j]}

\* options.versionTarget: absent, the two supported ones, another one
VersionTargets == {absent, "latest", "greatest", "newest"}

\* what npm.commands.view calls back with for a package: its document, a 404
\* error (npm gives it the pkgid of the package), or a network error (which
\* has no pkgid)
RegistryAnswers ==
    {[error |-> null, latest |-> "1.0.0", versions |-> <<"1.0.0", "2.0.0-beta">>],
     [error |-> "E404", pkgid |-> "package"],
     [error |-> "ETIMEDOUT", pkgid |-> absent]}

\* options.versionTarget || 'latest'
effectiveTarget(target) == IF target = absent THEN "latest" ELSE target

\* an unknown target falls back on the lookup of the latest version
selectWithFallback(target) ==
    CASE target = "greatest" -> "getGreatestPackageVersion"
      [] OTHER -> "getLatestPackageVersion"

\* the switch: the lookup function of a target, "unsupported" for its
\* default case
selectPackageVersion(target) ==
    CASE target = "latest" -> "getLatestPackageVersion"
      [] target = "greatest" -> "getGreatestPackageVersion"
      [] OTHER -> "unsupported"

\* the wrapper hands the error of the lookup to async.map
wrapperPassesError(error) == error

\* the error errorCollectorWrapper calls cb with
wrapperError(error) == null

\* the version a lookup calls back with (undefined with an error)
lookedUpVersion(answer, lookupFunction) ==
    IF answer.error # null THEN absent
    ELSE IF lookupFunction = "getLatestPackageVersion" THEN answer.latest
    ELSE answer.versions[Len(answer.versions)]

\* the key of failedDependencies an error is stored under: error.pkgid, the
\* property name "undefined" when the error has none
pkgidOf(answer, packageName) ==
    IF answer.pkgid = "package" THEN packageName ELSE "undefined"

\* cint.keyValue
keyValue(key, value) == [k \in {key} |-> value]

\* _.assign(a, b)
assign(a, b) ==
    [k \in DOMAIN a \cup DOMAIN b |-> IF k \in DOMAIN b THEN b[k] ELSE a[k]]

RECURSIVE reduceAssign(_, _)
\* list.reduce(_.assign, {})
reduceAssign(list, acc) ==
    IF list = <<>> THEN acc ELSE reduceAssign(Tail(list), assign(acc, Head(list)))

\* list.filter(cint.not(_.isEmpty))
filterNotEmpty(list) == SelectSeq(list, LAMBDA o : DOMAIN o # {})

\* the final callback of async.map in getLatestVersions
mapCallback(error, results, failed) ==
    IF error # null THEN [error |-> error]
    ELSE [error |-> null,
          latestDependencies |-> reduceAssign(filterNotEmpty(results), <<>>),
          failedDependencies |-> failed]

EmptyObject == [k \in {} |-> null]

InitLookup ==
    /\ pc = "call"
    /\ packageList \in PackageLists
    /\ versionTarget \in VersionTargets
    /\ registry \in [Packages -> RegistryAnswers]
    /\ getPackageVersion = "unset"
    /\ issued = {}
    /\ returned = {}
    /\ mapResults = <<>>
    /\ mapFailed = FALSE
    /\ failedDependencies = EmptyObject
    /\ callbacks = <<>>
    /\ declaration = Unused /\ latestVersion = Unused /\ newDeclaration = Unused
    /\ reDeclaration = Unused /\ upgradeable = Unused
    /\ currentDependencies = Unused /\ latestVersions = Unused /\ upgraded = Unused
    /\ data = Unused /\ oldDependencies = Unused /\ newDependencies = Unused
    /\ patched = Unused

\* getLatestVersions(packageList, options, callback), up to its return:
\* async.map has called errorCollectorWrapper, and so npm.commands.view, for
\* every package
GetLatestVersions ==
    /\ pc = "call"
    /\ LET selected == selectPackageVersion(effectiveTarget(versionTarget)) IN
       IF selected = "unsupported"
       THEN /\ callbacks' = Append(callbacks, [error |-> "Unsupported versionTarget"])
            /\ pc' = "done"
            /\ UNCHANGED <<getPackageVersion, issued, mapResults>>
       ELSE /\ getPackageVersion' = selected
            /\ issued' = {packageList[i] : i \in 1..Len(packageList)}
            /\ mapResults' = [i \in 1..Len(packageList) |-> EmptyObject]
            /\ IF packageList = <<>>
               THEN /\ callbacks' = Append(callbacks,
                                       mapCallback(null, <<>>, failedDependencies))
                    /\ pc' = "done"
               ELSE /\ callbacks' = callbacks
                    /\ pc' = "waiting"
    /\ UNCHANGED <<packageList, versionTarget, registry, returned, mapFailed,
                   failedDependencies>>
    /\ UNCHANGED <<declVars, setVars, patchVars>>

\* the callback of one lookup: errorCollectorWrapper records the error and
\* calls cb, async.map stores the result and, after the last one or at the
\* first error, calls the final callback
LookupReturns(i) ==
    /\ pc = "waiting"
    /\ i \in 1..Len(packageList)
    /\ packageList[i] \notin returned
    /\ LET packageName == packageList[i]
           answer == registry[packageName]
           version == lookedUpVersion(answer, getPackageVersion)
           failed == IF answer.error # null
                     THEN assign(failedDependencies,
                                 keyValue(pkgidOf(answer, packageName), answer.error))
                     ELSE failedDependencies
           err == wrapperError(answer.error)
           results == [mapResults EXCEPT ![i] = keyValue(packageName, version)]
           last == returned \cup {packageName} = issued
       IN  /\ failedDependencies' = failed
           /\ mapResults' = results
           /\ returned' = returned \cup {packageName}
           /\ IF err # null
              THEN /\ mapFailed' = TRUE
                   /\ callbacks' = IF mapFailed THEN callbacks
                                   ELSE Append(callbacks, mapCallback(err, results, failed))
              ELSE /\ mapFailed' = mapFailed
                   /\ callbacks' =
                          IF ~mapFailed /\
                             Cardinality({p \in returned \cup {packageName} :
                                 wrapperError(registry[p].error) = null}) = Len(packageList)
                          THEN Append(callbacks, mapCallback(null, results, failed))
                          ELSE callbacks
           /\ pc' = IF last THEN "done" ELSE "waiting"
    /\ UNCHANGED <<packageList, versionTarget, registry, getPackageVersion, issued>>
    /\ UNCHANGED <<declVars, setVars, patchVars>>

NextLookup == GetLatestVersions \/ \E i \in 1..Cardinality(Packages) : LookupReturns(i)

SpecLookup == InitLookup /\ [][NextLookup]_vars

\* the packages of the list
Requested == {packageList[i] : i \in 1..Len(packageList)}

SupportedTargets == {"latest", "greatest"}

\* the target in force: an absent one stands for 'latest'
TargetInForce == IF versionTarget = absent THEN "latest" ELSE versionTarget

LookupFailed(p) == registry[p].error # null

\* C6: with a supported target every lookup is issued, the final callback is
\* not called before every lookup has called back, and it is then called
\* once, with a null error and the two maps; no call of it carries an error.
C6_FailuresNeverAbort ==
    pc # "call" /\ TargetInForce \in SupportedTargets =>
        /\ issued = Requested
        /\ returned # issued => callbacks = <<>>
        /\ returned = issued =>
               /\ Len(callbacks) = 1
               /\ DOMAIN callbacks[1] =
                      {"error", "latestDependencies", "failedDependencies"}
               /\ callbacks[1].failedDependencies = failedDependencies
        /\ \A k \in 1..Len(callbacks) : callbacks[k].error = null

\* the first lookup to call back failed, the others were still awaited, and
\* the batch completed without an error
C6_Witness ==
    /\ pc = "done"
    /\ Len(packageList) = 3
    /\ LookupFailed(packageList[1])
    /\ ~LookupFailed(packageList[2])
    /\ LookupFailed(packageList[3])
    /\ Len(callbacks) = 1
    /\ callbacks[1].error = null
    /\ DOMAIN callbacks[1].failedDependencies # {}

\* C8: when getLatestVersions completes, every package whose lookup
\* succeeded is a key of the versions map, with its version, and every
\* package whose lookup failed has its entry in the failures map and is no
\* key of the versions map.
C8_ResultsPartitioned ==
    pc = "done" /\ TargetInForce \in SupportedTargets =>
        LET result == callbacks[Len(callbacks)] IN
        \A p \in Requested :
            /\ ~LookupFailed(p) =>
                   /\ p \in DOMAIN result.latestDependencies
                   /\ result.latestDependencies[p] =
                          IF TargetInForce = "latest" THEN registry[p].latest
                          ELSE registry[p].versions[Len(registry[p].versions)]
            /\ LookupFailed(p) =>
                   /\ p \in DOMAIN result.failedDependencies
                   /\ p \notin DOMAIN result.latestDependencies

\* C9: with a target that is neither 'latest' nor 'greatest', the callback is
\* called with the configuration error and no lookup is ever issued; an
\* absent target selects the lookup of the latest version.
C9_UnsupportedTargetRejected ==
    pc # "call" =>
        /\ TargetInForce \notin SupportedTargets =>
               /\ callbacks = <<[error |-> "Unsupported versionTarget"]>>
               /\ issued = {}
               /\ returned = {}
        /\ versionTarget = absent => getPackageVersion = "getLatestPackageVersion"

\* an unsupported target was given with packages to look up
C9_Witness ==
    /\ pc = "done"
    /\ versionTarget = "newest"
    /\ Len(packageList) = 3
    /\ Len(callbacks) = 1
    /\ issued = {}

-----------------------------------------------------------------------------
(* The manifest text patcher, with the part of RegExp its expression needs   *)

\* largest number of fields of the manifest text
MaxFields == 2

RegexpSpecial ==
    {"-", "/", "\\", "^", "$", "*", "+", "?", ".", "(", ")", "|", "[", "]", "{", "}"}

RECURSIVE escapeRegexp(_)
escapeRegexp(s) ==
    IF s = <<>> THEN <<>>
    ELSE (IF Head(s) \in RegexpSpecial THEN <<"\\", Head(s)>> ELSE <<Head(s)>>)
         \o escapeRegexp(Tail(s))

\* the source of the regular expression of updatePackageData
expression(dependency, oldDeclaration) ==
    <<"\"">> \o dependency \o <<"\"", "\\", "s", "*", ":", "\\", "s", "*", "\"">>
    \o escapeRegexp(oldDeclaration \o <<"\"">>)

RECURSIVE RegExp(_)
\* new RegExp(e, "g"), for the syntax the expression can have: \s*, an escaped
\* character, the dot, and characters that stand for themselves
RegExp(e) ==
    IF e = <<>> THEN <<>>
    ELSE IF e[1] = "\\" /\ Len(e) >= 3 /\ e[2] = "s" /\ e[3] = "*"
         THEN <<[kind |-> "spaces", c |-> ""]>> \o RegExp(SubSeq(e, 4, Len(e)))
    ELSE IF e[1] = "\\" /\ Len(e) >= 2
         THEN <<[kind |-> "char", c |-> e[2]]>> \o RegExp(SubSeq(e, 3, Len(e)))
    ELSE IF e[1] = "."
         THEN <<[kind |-> "any", c |-> ""]>> \o RegExp(Tail(e))
    ELSE <<[kind |-> "char", c |-> e[1]]>> \o RegExp(Tail(e))

WhiteSpace == {" ", "\t", "\n"}

\* no match at this index
NoMatch == 0

RECURSIVE spaceRun(_, _)
\* the number of white space characters of text from index i on
spaceRun(text, i) ==
    IF i > Len(text) \/ text[i] \notin WhiteSpace THEN 0
    ELSE 1 + spaceRun(text, i + 1)

RECURSIVE matchHere(_, _, _)
RECURSIVE matchSpaces(_, _, _, _)
\* the index after the match of regExp that starts at index i of text
matchHere(regExp, text, i) ==
    IF regExp = <<>> THEN i
    ELSE LET h == Head(regExp) IN
         IF h.kind = "spaces"
         THEN matchSpaces(Tail(regExp), text, i, spaceRun(text, i))
         ELSE IF i > Len(text) THEN NoMatch
         ELSE IF \/ h.kind = "any" /\ text[i] # "\n"
                 \/ h.kind = "char" /\ text[i] = h.c
              THEN matchHere(Tail(regExp), text, i + 1)
              ELSE NoMatch

\* \s* is greedy: n white space characters, then fewer
matchSpaces(rest, text, i, n) ==
    LET end == matchHere(rest, text, i + n) IN
    IF end # NoMatch THEN end
    ELSE IF n = 0 THEN NoMatch
    ELSE matchSpaces(rest, text, i, n - 1)

RECURSIVE replace(_, _, _, _)
\* text.replace(regExp, replacement), from index i on, for a global regExp
\* and a replacement without $
replace(text, regExp, replacement, i) ==
    IF i > Len(text) THEN <<>>
    ELSE LET end == matchHere(regExp, text, i) IN
         IF end # NoMatch
         THEN replacement \o replace(text, regExp, replacement, end)
         ELSE <<text[i]>> \o replace(text, regExp, replacement, i + 1)

RECURSIVE updatePackageData(_, _, _)
\* newDeps lists the properties of newDependencies in the order of for-in
updatePackageData(text, oldDeps, newDeps) ==
    IF newDeps = <<>> THEN text
    ELSE LET dependency == Head(newDeps).name
             regExp == RegExp(expression(dependency, oldDeps[dependency]))
             replacement == <<"\"">> \o dependency \o <<"\"", ":", " ", "\"">>
                            \o Head(newDeps).declaration \o <<"\"">>
         IN  updatePackageData(replace(text, regExp, replacement, 1),
                               oldDeps, Tail(newDeps))

\* package names of the manifests
ManifestNames == {<<"a", ".", "b">>, <<"a", "-", "b">>}
ManifestDeclarations == {<<"1">>, <<"^", "1", ".", "x">>}
NewDeclarations == {<<"2">>}

\* the white space before and after the colon of a field
Spacings == {<< <<>>, <<" ">> >>, << <<>>, <<>> >>, << <<" ">>, <<" ">> >>}

Fields ==
    [name : ManifestNames, spacing : Spacings, declaration : ManifestDeclarations]

renderField(f) ==
    <<"\"">> \o f.name \o <<"\"">> \o f.spacing[1] \o <<":">> \o f.spacing[2]
    \o <<"\"">> \o f.declaration \o <<"\"">>

RECURSIVE renderFields(_)
renderFields(fields) ==
    IF fields = <<>> THEN <<>>
    ELSE IF Len(fields) = 1 THEN renderField(fields[1])
    ELSE renderField(fields[1]) \o <<",">> \o renderFields(Tail(fields))

\* the manifest text of a list of fields
render(fields) == <<"{">> \o renderFields(fields) \o <<"}">>

\* the old collections, and for each the new ones: some of its names, in
\* some order, with a new declaration
OldCollections ==
    UNION {[names -> ManifestDeclarations] : names \in SUBSET ManifestNames}

NewCollections(oldDeps) ==
    {l \in SeqsUpTo([name : DOMAIN oldDeps, declaration : NewDeclarations],
                    Cardinality(DOMAIN oldDeps)) :
         \A i, j \in 1..Len(l) : i # j => l[i].name # l[j].name}

InitPatch ==
    /\ pc = "patch"
    /\ data \in SeqsUpTo(Fields, MaxFields)
    /\ oldDependencies \in OldCollections
    /\ newDependencies \in NewCollections(oldDependencies)
    /\ patched = Unused
    /\ declaration = Unused /\ latestVersion = Unused /\ newDeclaration = Unused
    /\ reDeclaration = Unused /\ upgradeable = Unused
    /\ currentDependencies = Unused /\ latestVersions = Unused /\ upgraded = Unused
    /\ packageList = Unused /\ versionTarget = Unused /\ registry = Unused
    /\ getPackageVersion = Unused /\ issued = Unused /\ returned = Unused
    /\ mapResults = Unused /\ mapFailed = Unused /\ failedDependencies = Unused
    /\ callbacks = Unused

UpdatePackageData ==
    /\ pc = "patch"
    /\ patched' = updatePackageData(render(data), oldDependencies, newDependencies)
    /\ pc' = "patched"
    /\ UNCHANGED <<data, oldDependencies, newDependencies>>
    /\ UNCHANGED <<declVars, setVars, lookupVars>>

NextPatch == UpdatePackageData

SpecPatch == InitPatch /\ [][NextPatch]_vars

\* the new declaration of a name, when newDependencies has it
NewOf(name) ==
    LET i == CHOOSE k \in 1..Len(newDependencies) : newDependencies[k].name = name
    IN  newDependencies[i].declaration

\* the field is, character for character, "<name>": "<oldDeclaration>" for a
\* name of newDependencies
Verbatim(f) ==
    /\ \E k \in 1..Len(newDependencies) : newDependencies[k].name = f.name
    /\ f.spacing = << <<>>, <<" ">> >>
    /\ f.declaration = oldDependencies[f.name]

\* C7: the text returned is the text given with the declaration of every
\* field that is verbatim "<name>": "<oldDeclaration>", for a name of
\* newDependencies, replaced by the new declaration; every other field, and
\* all other text, is as it was.
C7_OnlyVerbatimFieldsReplaced ==
    pc = "patched" =>
        patched = render([i \in 1..Len(data) |->
                             IF Verbatim(data[i])
                             THEN [data[i] EXCEPT !.declaration = NewOf(data[i].name)]
                             ELSE data[i]])

\* the name of a field matches the name of a dependency read as a regular
\* expression: a dot stands for any character
NameMatches(dependency, name) ==
    /\ Len(dependency) = Len(name)
    /\ \A i \in 1..Len(name) : dependency[i] = "." \/ dependency[i] = name[i]

\* the field as updatePackageData writes it for a dependency
Rewritten(dependency) ==
    [name |-> dependency.name, spacing |-> << <<>>, <<" ">> >>,
     declaration |-> dependency.declaration]

RECURSIVE FieldsAfter(_, _)
\* the fields after the dependencies have been dealt with, in their order
FieldsAfter(fields, dependencies) ==
    IF dependencies = <<>> THEN fields
    ELSE LET d == Head(dependencies) IN
         FieldsAfter([i \in 1..Len(fields) |->
                         IF /\ NameMatches(d.name, fields[i].name)
                            /\ fields[i].declaration = oldDependencies[d.name]
                         THEN Rewritten(d)
                         ELSE fields[i]],
                     Tail(dependencies))

\* What updatePackageData does instead (C7's divergence): for each name of
\* newDependencies in turn, every field made of a quoted name that the name
\* matches as a regular expression, a colon with any white space around it,
\* and the quoted old declaration is rewritten as "<name>": "<newDeclaration>".
PatcherRewritesMatchingFields ==
    pc = "patched" => patched = render(FieldsAfter(data, newDependencies))

\* the field of another package is rewritten under the dependency's name
\* (C7's failing input)
PatcherKeepsOtherNames ==
    pc = "patched" /\ Len(data) = 1 /\ Len(newDependencies) = 1
        /\ data[1].name # newDependencies[1].name
        => patched = render(data)

====
